---- MODULE Spec2Model ----
(***************************************************************************)
(* A model of the just-todo backend (backend/app/main.py, models.py,       *)
(* schemas.py): the import-time startup sequence (create_all, the two      *)
(* ensure_*_column migrations, seed_todos) followed by the request         *)
(* handlers list_todos, create_todo, update_todo and delete_todo working   *)
(* on the todos table.                                                     *)
(*                                                                         *)
(* Text values (title, assignee, the assignee filter) are sequences of     *)
(* code points; dates are day numbers.  A table row is a function from the *)
(* names of the live table's columns to values.                            *)
(***************************************************************************)
EXTENDS Integers, Sequences, FiniteSets, TLC

VARIABLES
    pc,             \* position of the process in main.py's module-level code
    startup_error,  \* the exception that ended the import, or "none"
    tableExists,    \* whether the table todos exists in the Store
    columns,        \* the live table's column names (inspector.get_columns)
    rows,           \* the rows of todos
    request,        \* the last request a handler was called with
    response,       \* what that handler returned or raised
    assigned,       \* history: every id a stored row has ever had
    bootstrapped    \* history: a bootstrap has run to its end on this Store

vars ==
    <<pc, startup_error, tableExists, columns, rows, request, response, assigned,
      bootstrapped>>

store == <<tableExists, columns, rows>>

(***************************************************************************)
(* Bounds of the model.                                                    *)
(***************************************************************************)
MaxId == 2

Ids == 1..MaxId

\* an id no row can have, used for requests aimed at a missing record
MissingId == MaxId + 1

Dates == {1, 2}

\* "A", "AB"
Titles == {<<65>>, <<65, 66>>}

\* "Sa", "sa"
Assignees == {<<83, 97>>, <<115, 97>>}

(***************************************************************************)
(* models.py: the mapped class Todo.                                       *)
(***************************************************************************)
\* the Column attributes of class Todo
MappedColumns == {"id", "due_date", "title", "assignee", "completed"}

\* the columns of the original table, before completed and favorite existed
BaseColumns == {"id", "due_date", "title", "assignee"}

\* Todo(**kwargs): the declarative constructor accepts only keys that are
\* attributes of the class and raises TypeError for any other key
TodoInit(kwargs) ==
    [raised |-> ~(DOMAIN kwargs \subseteq MappedColumns), obj |-> kwargs]

\* the ORM's view of a row: the mapped columns only
Load(row) == [c \in MappedColumns |-> row[c]]

\* the object written back as a new row, under the next id the Store gives
PersistAsNewRow(obj, old) ==
    [c \in DOMAIN old |->
        IF c = "id" THEN (CHOOSE m \in assigned : \A x \in assigned : x <= m) + 1
        ELSE IF c \in MappedColumns /\ c \in DOMAIN obj THEN obj[c] ELSE old[c]]

\* the UPDATE db.commit() issues for a changed object: the mapped columns
\* from the object, every other live column keeps its value
Persist(obj, old) ==
    [c \in DOMAIN old |-> IF c \in MappedColumns /\ c \in DOMAIN obj THEN obj[c] ELSE old[c]]

(***************************************************************************)
(* schemas.py: TodoBase / TodoCreate / TodoUpdate / TodoOut.               *)
(***************************************************************************)
RequiredFields == {"due_date", "title", "assignee"}

OptionalFields == {"completed", "favorite"}

\* payload.model_dump(): the fields given, completed and favorite False
\* when the request body left them out
ModelDump(raw) ==
    [f \in RequiredFields \cup OptionalFields |->
        IF f \in DOMAIN raw THEN raw[f] ELSE FALSE]

\* TodoOut built from an object's attributes (from_attributes): an
\* attribute the object does not have takes the field's default
TodoOut(obj) ==
    [id |-> obj["id"], due_date |-> obj["due_date"], title |-> obj["title"],
     assignee |-> obj["assignee"],
     completed |-> IF "completed" \in DOMAIN obj THEN obj["completed"] ELSE FALSE,
     favorite |-> IF "favorite" \in DOMAIN obj THEN obj["favorite"] ELSE FALSE]

(***************************************************************************)
(* Startup: main.py lines 13-69, run once per process in this order.       *)
(***************************************************************************)
NoRequest == [op |-> "none"]

NoResponse == [status |-> 0, detail |-> "", body |-> <<>>]

Abort(exc) ==
    /\ pc' = "aborted"
    /\ startup_error' = exc

\* Base.metadata.create_all(bind=engine): CREATE TABLE only when the table
\* is missing, with the columns of the mapped class
CreateAll(ok) ==
    /\ pc = "create_all"
    /\ IF ~ok
       THEN /\ Abort("OperationalError")
            /\ UNCHANGED <<tableExists, columns, rows>>
       ELSE /\ pc' = "ensure_completed"
            /\ UNCHANGED startup_error
            /\ IF tableExists
               THEN UNCHANGED <<tableExists, columns, rows>>
               ELSE /\ tableExists' = TRUE
                    /\ columns' = MappedColumns
                    /\ rows' = {}
    /\ UNCHANGED <<request, response, assigned, bootstrapped>>

\* the table dropped and created again with the new column: its rows lost
AddColumnRecreate(name) ==
    /\ columns' = columns \cup {name}
    /\ rows' = {}

\* ALTER TABLE todos ADD COLUMN <name> BOOLEAN DEFAULT 0: every existing
\* row reads the default in the new column
AddColumn(name) ==
    /\ columns' = columns \cup {name}
    /\ rows' = {r @@ (name :> FALSE) : r \in rows}

EnsureCompletedColumn(ok) ==
    /\ pc = "ensure_completed"
    /\ IF ~ok
       THEN /\ Abort("OperationalError")
            /\ UNCHANGED <<columns, rows>>
       ELSE /\ pc' = "ensure_favorite"
            /\ UNCHANGED startup_error
            /\ IF "completed" \notin columns
               THEN AddColumn("completed")
               ELSE UNCHANGED <<columns, rows>>
    /\ UNCHANGED <<tableExists, request, response, assigned, bootstrapped>>

\* the ALTER's failure caught and ignored: the import goes on
EnsureFavoriteColumnUnchecked(ok) ==
    /\ pc = "ensure_favorite"
    /\ pc' = "seed_todos"
    /\ bootstrapped' = TRUE
    /\ IF ~ok
       THEN /\ startup_error' = "OperationalError"
            /\ UNCHANGED <<columns, rows>>
       ELSE /\ UNCHANGED startup_error
            /\ IF "favorite" \notin columns
               THEN AddColumn("favorite")
               ELSE UNCHANGED <<columns, rows>>
    /\ UNCHANGED <<tableExists, request, response, assigned>>

EnsureFavoriteColumn(ok) ==
    /\ pc = "ensure_favorite"
    /\ IF ~ok
       THEN /\ Abort("OperationalError")
            /\ UNCHANGED <<columns, rows, bootstrapped>>
       ELSE /\ pc' = "seed_todos"
            /\ UNCHANGED startup_error
            /\ bootstrapped' = TRUE
            /\ IF "favorite" \notin columns
               THEN AddColumn("favorite")
               ELSE UNCHANGED <<columns, rows>>
    /\ UNCHANGED <<tableExists, request, response, assigned>>

(***************************************************************************)
(* seed_todos, main.py lines 38-69.                                        *)
(***************************************************************************)
SeedCount == 100

assignees ==
    << <<84, 97, 110, 97, 107, 97>>,        \* Tanaka
       <<83, 97, 116, 111>>,                \* Sato
       <<83, 117, 122, 117, 107, 105>>,     \* Suzuki
       <<89, 97, 109, 97, 100, 97>>,        \* Yamada
       <<75, 97, 116, 111>> >>              \* Kato

\* the six title templates, as code points
titles ==
    << <<20181, 27096, 26360, 12524, 12499, 12517, 12540>>,
       <<85, 73, 35519, 25972>>,
       <<65, 80, 73, 23455, 35013>>,
       <<12496, 12464, 20462, 27491>>,
       <<12486, 12473, 12488, 36861, 21152>>,
       <<12489, 12461, 12517, 12513, 12531, 12488, 26356, 26032>> >>

\* randint(-10, 30) drawn SeedCount times after seed(42)
RandintStream ==
    << 30, -3, -9, 7, 5, 4, -2, -4, 24, -5, 27, 17, -8, -9, -5, 3, 4, 22, 28, -9,
       25, 2, 24, 16, 4, 18, 27, 7, -10, 0, 17, 11, 7, -1, 3, 11, -4, -5, 14, -4,
       12, 12, 28, 6, -8, 19, 24, -3, 14, -5, 25, 8, 30, 29, 13, 26, 2, -6, -8, 4,
       8, -5, 4, -4, 14, 7, 19, 30, 13, 0, 13, 12, 3, 7, -6, 28, 30, 0, 24, 5,
       0, 19, 14, 7, 30, 25, 4, 10, -7, 4, -8, 10, 15, 7, -6, 3, 26, 10, 3, 21 >>

\* str(n) for n >= 0, as code points
RECURSIVE Digits(_)
Digits(n) ==
    IF n < 10 THEN <<48 + n>> ELSE Digits(n \div 10) \o <<48 + (n % 10)>>

\* the keyword arguments of the i-th Todo(...) of the loop, i from 0;
\* base is date.today(), taken as day 0
SeedKwargs(i) ==
    LET base == 0
    IN  [due_date |-> base + RandintStream[i + 1],
         title |-> titles[(i % Len(titles)) + 1] \o <<32, 35>> \o Digits(i + 1),
         assignee |-> assignees[(i % Len(assignees)) + 1],
         completed |-> FALSE,
         favorite |-> FALSE]

IdsOf(rs) == {r["id"] : r \in rs}

Max(S) == CHOOSE m \in S : \A x \in S : x <= m

\* the id the Store gives the next inserted row
NewId(used) == Max(used \cup {0}) + 1

\* INSERT of one ORM object: the mapped attributes it carries, the id the
\* Store assigns, DEFAULT 0 in every other live column
InsertRow(obj, newid) ==
    [c \in columns |->
        IF c = "id" THEN newid
        ELSE IF c \in DOMAIN obj THEN obj[c] ELSE FALSE]

SeedTodos(ok) ==
    /\ pc = "seed_todos"
    /\ IF ~ok
       THEN /\ Abort("OperationalError")
            /\ UNCHANGED <<rows, assigned>>
       ELSE IF rows # {}
       THEN /\ pc' = "serving"
            /\ UNCHANGED <<startup_error, rows, assigned>>
       ELSE LET todos == [i \in 0..(SeedCount - 1) |-> TodoInit(SeedKwargs(i))]
                first == NewId(assigned)
            IN  IF \E i \in DOMAIN todos : todos[i].raised
                THEN /\ Abort("TypeError")
                     /\ UNCHANGED <<rows, assigned>>
                ELSE /\ pc' = "serving"
                     /\ UNCHANGED startup_error
                     /\ rows' = {InsertRow(todos[i].obj, first + i) : i \in DOMAIN todos}
                     /\ assigned' = assigned \cup IdsOf(rows')
    /\ UNCHANGED <<tableExists, columns, request, response, bootstrapped>>

\* a new process on the same Store
Restart ==
    /\ pc \in {"serving", "aborted"}
    /\ pc' = "create_all"
    /\ startup_error' = "none"
    /\ request' = NoRequest
    /\ response' = NoResponse
    /\ UNCHANGED <<tableExists, columns, rows, assigned, bootstrapped>>

(***************************************************************************)
(* The query of list_todos, main.py lines 90-117.                          *)
(***************************************************************************)
column_map == {"id", "due_date", "title", "assignee"}

\* the order looked at before the sort field
BuildOrderClauseOrderFirst(sort, order) ==
    IF order \notin {"asc", "desc"}
    THEN [raised |-> TRUE, detail |-> "Invalid order", col |-> "", dir |-> ""]
    ELSE IF sort \notin column_map
    THEN [raised |-> TRUE, detail |-> "Invalid sort field", col |-> "", dir |-> ""]
    ELSE [raised |-> FALSE, detail |-> "", col |-> sort, dir |-> order]

BuildOrderClause(sort, order) ==
    IF sort \notin column_map
    THEN [raised |-> TRUE, detail |-> "Invalid sort field", col |-> "", dir |-> ""]
    ELSE IF order = "asc"
    THEN [raised |-> FALSE, detail |-> "", col |-> sort, dir |-> "asc"]
    ELSE IF order = "desc"
    THEN [raised |-> FALSE, detail |-> "", col |-> sort, dir |-> "desc"]
    ELSE [raised |-> TRUE, detail |-> "Invalid order", col |-> "", dir |-> ""]

\* text compares code point by code point, a proper prefix first
RECURSIVE StrLess(_, _)
StrLess(a, b) ==
    IF b = <<>> THEN FALSE
    ELSE IF a = <<>> THEN TRUE
    ELSE IF Head(a) # Head(b) THEN Head(a) < Head(b)
    ELSE StrLess(Tail(a), Tail(b))

\* the Store's order of two values of column col
ValLess(col, x, y) ==
    IF col \in {"title", "assignee"} THEN StrLess(x, y)
    ELSE IF col = "completed" THEN x = FALSE /\ y = TRUE
    ELSE x < y

\* ORDER BY <col> <dir> alone, the completed key left out
BeforeUngrouped(a, b, clause) ==
    IF clause.dir = "asc"
    THEN ValLess(clause.col, a[clause.col], b[clause.col])
    ELSE ValLess(clause.col, b[clause.col], a[clause.col])

\* ORDER BY completed ASC, <col> <dir>: a strictly before b
Before(a, b, clause) ==
    IF a["completed"] # b["completed"]
    THEN ValLess("completed", a["completed"], b["completed"])
    ELSE IF clause.dir = "asc"
    THEN ValLess(clause.col, a[clause.col], b[clause.col])
    ELSE ValLess(clause.col, b[clause.col], a[clause.col])

\* the rows of rs in the table's own order (by rowid)
RECURSIVE Scan(_)
Scan(rs) ==
    IF rs = {} THEN <<>>
    ELSE LET r == CHOOSE x \in rs : \A y \in rs : x["id"] <= y["id"]
         IN  <<r>> \o Scan(rs \ {r})

\* r put into the ordered sequence s after every row not after it
RECURSIVE Insert(_, _, _)
Insert(r, s, clause) ==
    IF s = <<>> THEN <<r>>
    ELSE IF Before(r, Head(s), clause) THEN <<r>> \o s
    ELSE <<Head(s)>> \o Insert(r, Tail(s), clause)

RECURSIVE OrderBy(_, _)
OrderBy(s, clause) ==
    IF s = <<>> THEN <<>>
    ELSE Insert(s[Len(s)], OrderBy(SubSeq(s, 1, Len(s) - 1), clause), clause)

Percent == 37

Underscore == 95

\* the comparison of one pattern character with one character of the
\* value, under the Store's collation
CharMatch(p, c) == p = c

\* value LIKE pattern: % matches any run of characters, _ any one
RECURSIVE Like(_, _)
Like(pattern, value) ==
    IF pattern = <<>> THEN value = <<>>
    ELSE IF Head(pattern) = Percent
    THEN Like(Tail(pattern), value) \/ (value # <<>> /\ Like(pattern, Tail(value)))
    ELSE IF value = <<>> THEN FALSE
    ELSE IF Head(pattern) = Underscore THEN Like(Tail(pattern), Tail(value))
    ELSE CharMatch(Head(pattern), Head(value)) /\ Like(Tail(pattern), Tail(value))

\* Todo.assignee.contains(other): assignee LIKE '%' || other || '%'
Contains(value, other) == Like(<<Percent>> \o other \o <<Percent>>, value)

\* assignee: str | None; None is [given |-> FALSE]
NoFilter == [given |-> FALSE, text |-> <<>>]

Filter(text) == [given |-> TRUE, text |-> text]

\* if assignee: ... where(Todo.assignee.contains(assignee))
Where(rs, assignee) ==
    IF assignee.given /\ assignee.text # <<>>
    THEN {r \in rs : Contains(r["assignee"], assignee.text)}
    ELSE rs

\* db.scalars(stmt).all(), serialised as list[TodoOut]
Select(rs, clause, assignee) ==
    LET found == OrderBy(Scan(Where(rs, assignee)), clause)
    IN  [i \in 1..Len(found) |-> TodoOut(Load(found[i]))]

ListTodos(sort, order, assignee) ==
    /\ pc = "serving"
    /\ request' = [op |-> "list", sort |-> sort, order |-> order, assignee |-> assignee]
    /\ LET order_clause == BuildOrderClause(sort, order)
       IN  IF order_clause.raised
           THEN response' = [status |-> 400, detail |-> order_clause.detail, body |-> <<>>]
           ELSE response' = [status |-> 200, detail |-> "",
                             body |-> Select(rows, order_clause, assignee)]
    /\ UNCHANGED <<pc, startup_error, tableExists, columns, rows, assigned, bootstrapped>>

(***************************************************************************)
(* create_todo, update_todo, delete_todo, main.py lines 120-148.           *)
(***************************************************************************)
CreateTodo(raw) ==
    /\ pc = "serving"
    /\ request' = [op |-> "create", payload |-> raw]
    /\ LET todo == TodoInit(ModelDump(raw))
           newid == NewId(assigned)
       IN  IF todo.raised
           THEN /\ response' = [status |-> 500, detail |-> "Internal Server Error",
                                body |-> <<>>]
                /\ UNCHANGED <<rows, assigned>>
           ELSE /\ rows' = rows \cup {InsertRow(todo.obj, newid)}
                /\ assigned' = assigned \cup {newid}
                /\ response' = [status |-> 200, detail |-> "",
                                body |-> <<TodoOut(Load(InsertRow(todo.obj, newid)))>>]
    /\ UNCHANGED <<pc, startup_error, tableExists, columns, bootstrapped>>

\* setattr(todo, key, value) for every dumped key, on the loaded object
SetAttrs(obj, dump) ==
    [k \in DOMAIN obj \cup DOMAIN dump |-> IF k \in DOMAIN dump THEN dump[k] ELSE obj[k]]

\* db.refresh(todo): the mapped attributes are read again from the row,
\* any other attribute of the object is left as it was set
Refresh(obj, row) ==
    [k \in DOMAIN obj |-> IF k \in MappedColumns THEN row[k] ELSE obj[k]]

UpdateTodo(todo_id, raw) ==
    /\ pc = "serving"
    /\ request' = [op |-> "update", id |-> todo_id, payload |-> raw]
    /\ IF todo_id \notin IdsOf(rows)
       THEN /\ response' = [status |-> 404, detail |-> "Todo not found", body |-> <<>>]
            /\ UNCHANGED rows
       ELSE LET old == CHOOSE r \in rows : r["id"] = todo_id
                todo == SetAttrs(Load(old), ModelDump(raw))
                new == Persist(todo, old)
            IN  /\ rows' = (rows \ {old}) \cup {new}
                /\ response' = [status |-> 200, detail |-> "",
                                body |-> <<TodoOut(Refresh(todo, new))>>]
    /\ UNCHANGED <<pc, startup_error, tableExists, columns, assigned, bootstrapped>>

\* db.delete(todo) with the commit left out: the row stays
RemoveUncommitted(rs, todo_id) == rs

\* db.delete(todo); db.commit()
Remove(rs, todo_id) == {r \in rs : r["id"] # todo_id}

DeleteTodo(todo_id) ==
    /\ pc = "serving"
    /\ request' = [op |-> "delete", id |-> todo_id]
    /\ IF todo_id \notin IdsOf(rows)
       THEN /\ response' = [status |-> 404, detail |-> "Todo not found", body |-> <<>>]
            /\ UNCHANGED rows
       ELSE /\ rows' = Remove(rows, todo_id)
            /\ response' = [status |-> 200, detail |-> "ok", body |-> <<>>]
    /\ UNCHANGED <<pc, startup_error, tableExists, columns, assigned, bootstrapped>>

(***************************************************************************)
(* The inputs and the Stores the model runs on.                            *)
(***************************************************************************)
Sorts == column_map \cup {"favorite"}

Orders == {"asc", "desc", "up"}

\* None, "Sa"
FewFilters == {NoFilter, Filter(<<83, 97>>)}

\* None, "", "Sa", "sa", "a", "b", "_", "%"
Filters ==
    {NoFilter} \cup
    {Filter(t) : t \in {<<>>, <<83, 97>>, <<115, 97>>, <<97>>, <<98>>,
                        <<Underscore>>, <<Percent>>}}

\* the values of (due_date, title, assignee) rows and request bodies take
\* where only the query is exercised: every combination
AllFields ==
    {[due_date |-> d, title |-> t, assignee |-> a] :
        d \in Dates, t \in Titles, a \in Assignees}

\* and where whole runs of the process are explored: two, differing in
\* every field
FewFields ==
    {[due_date |-> 1, title |-> <<65>>, assignee |-> <<83, 97>>],
     [due_date |-> 2, title |-> <<65, 66>>, assignee |-> <<115, 97>>]}

\* request bodies: the three required fields, completed and favorite each
\* given or left out
Payloads ==
    {req @@ opt :
        req \in FewFields,
        opt \in UNION {[S -> BOOLEAN] : S \in SUBSET OptionalFields}}

\* the rows with this id a table with columns cols may hold
RowsWith(cols, id, fields) ==
    {[c \in cols |->
        CASE c = "id" -> id
          [] c \in RequiredFields -> f[c]
          [] c = "completed" -> done
          [] OTHER -> FALSE] :
     f \in fields, done \in BOOLEAN}

\* the contents a table with columns cols may have: at most one row per id
Tables(cols, fields) ==
    UNION {{{g[i] : i \in S} :
             g \in {h \in [S -> UNION {RowsWith(cols, i, fields) : i \in Ids}] :
                       \A i \in S : h[i]["id"] = i}} :
           S \in SUBSET Ids}

Init ==
    /\ pc = "create_all"
    /\ startup_error = "none"
    /\ tableExists \in BOOLEAN
    /\ columns \in IF tableExists
                   THEN {BaseColumns \cup s : s \in SUBSET OptionalFields}
                   ELSE {{}}
    /\ rows \in IF tableExists THEN Tables(columns, FewFields) ELSE {{}}
    /\ request = NoRequest
    /\ response = NoResponse
    /\ assigned = IdsOf(rows)
    /\ bootstrapped = FALSE

Next ==
    \/ \E ok \in BOOLEAN : CreateAll(ok)
    \/ \E ok \in BOOLEAN : EnsureCompletedColumn(ok)
    \/ \E ok \in BOOLEAN : EnsureFavoriteColumn(ok)
    \/ \E ok \in BOOLEAN : SeedTodos(ok)
    \/ Restart
    \/ \E sort \in Sorts, order \in Orders, assignee \in FewFilters :
            ListTodos(sort, order, assignee)
    \/ \E raw \in Payloads : CreateTodo(raw)
    \/ \E todo_id \in Ids \cup {MissingId}, raw \in Payloads : UpdateTodo(todo_id, raw)
    \/ \E todo_id \in Ids \cup {MissingId} : DeleteTodo(todo_id)

Spec == Init /\ [][Next]_vars

(***************************************************************************)
(* The query alone: a serving process on any Store, one list request with  *)
(* any parameters.                                                         *)
(***************************************************************************)
InitQuery ==
    /\ pc = "serving"
    /\ startup_error = "none"
    /\ tableExists = TRUE
    /\ columns = BaseColumns \cup OptionalFields
    /\ rows \in Tables(columns, AllFields)
    /\ request = NoRequest
    /\ response = NoResponse
    /\ assigned = IdsOf(rows)
    /\ bootstrapped = TRUE

NextQuery ==
    /\ request = NoRequest
    /\ \E sort \in Sorts, order \in Orders, assignee \in Filters :
            ListTodos(sort, order, assignee)

SpecQuery == InitQuery /\ [][NextQuery]_vars

(***************************************************************************)
(* What is checked of the handlers' results.                               *)
(***************************************************************************)
\* a handler for op ran in this step
Handled(op) ==
    /\ <<request, response>>' # <<request, response>>
    /\ request'.op = op

ValidSorts == {"id", "due_date", "title", "assignee"}

ValidOrders == {"asc", "desc"}

\* C1: for every valid (sort, order) a list request succeeds and returns
\* every record with completed = false before every record with
\* completed = true, and inside each of the two groups the records in the
\* order of the requested field, ascending for asc and descending for desc
C1_CompletedFirstThenSorted ==
    (request.op = "list" /\ request.sort \in ValidSorts /\ request.order \in ValidOrders)
    => /\ response.status = 200
       /\ \A i, j \in 1..Len(response.body) :
            i < j =>
              LET x == response.body[i]
                  y == response.body[j]
                  f == request.sort
              IN  /\ ~(x.completed /\ ~y.completed)
                  /\ x.completed = y.completed =>
                        IF request.order = "asc"
                        THEN ~ValLess(f, y[f], x[f])
                        ELSE ~ValLess(f, x[f], y[f])

\* a list by id descending whose first record has the smaller id, because
\* it is the incomplete one
C1_Witness ==
    /\ request.op = "list"
    /\ request.sort = "id"
    /\ request.order = "desc"
    /\ response.status = 200
    /\ Len(response.body) = 2
    /\ response.body[1].id < response.body[2].id
    /\ ~response.body[1].completed
    /\ response.body[2].completed

\* C2: a list request with a sort outside the accepted set fails with 400
\* "Invalid sort field" whatever its order is, one with a valid sort and
\* an order outside {asc, desc} fails with 400 "Invalid order"; either way
\* nothing is returned, the Store is as it was and the process keeps serving
C2_InvalidSortOrOrderRejected ==
    [][Handled("list") =>
        /\ request'.sort \notin ValidSorts =>
              /\ response' = [status |-> 400, detail |-> "Invalid sort field", body |-> <<>>]
              /\ store' = store
              /\ pc' = "serving"
        /\ (request'.sort \in ValidSorts /\ request'.order \notin ValidOrders) =>
              /\ response' = [status |-> 400, detail |-> "Invalid order", body |-> <<>>]
              /\ store' = store
              /\ pc' = "serving"]_vars

\* an unknown sort field sent together with an unknown order, on a Store
\* that holds records
C2_Witness ==
    /\ request.op = "list"
    /\ request.sort \notin ValidSorts
    /\ request.order \notin ValidOrders
    /\ response.status = 400
    /\ response.detail = "Invalid sort field"
    /\ rows # {}
    /\ pc = "serving"

\* sub occurs in text as a run of equal characters
IsSubstring(sub, text) ==
    \E k \in 0..(Len(text) - Len(sub)) : SubSeq(text, k + 1, k + Len(sub)) = sub

\* C3: with a non-empty assignee filter a list returns exactly the stored
\* records whose assignee contains the filter as a case-sensitive
\* substring; with no filter or the empty one it returns every stored record
C3_FilterIsSubstring ==
    (request.op = "list" /\ response.status = 200)
    => LET listed == {response.body[i].id : i \in 1..Len(response.body)}
           f == request.assignee
       IN  /\ Len(response.body) = Cardinality(listed)
           /\ IF f.given /\ f.text # <<>>
              THEN listed = {r["id"] : r \in {x \in rows : IsSubstring(f.text, x["assignee"])}}
              ELSE listed = IdsOf(rows)

\* the value request body X carries for an optional field
Given(X, f) == IF f \in DOMAIN X THEN X[f] ELSE FALSE

\* what reading the stored record with this id gives
ReadBack(rs, id) == {TodoOut(Load(r)) : r \in {x \in rs : x["id"] = id}}

\* C4: create_todo(X) succeeds for every payload X, and reading the record
\* with the assigned id gives the due_date, title, assignee, completed and
\* favorite of X, completed and favorite false where X left them out
C4_CreateRoundTrip ==
    [][Handled("create") =>
        LET X == request'.payload
        IN  /\ response'.status = 200
            /\ Len(response'.body) = 1
            /\ \E out \in ReadBack(rows', response'.body[1].id) :
                  /\ out.due_date = X.due_date
                  /\ out.title = X.title
                  /\ out.assignee = X.assignee
                  /\ out.completed = Given(X, "completed")
                  /\ out.favorite = Given(X, "favorite")]_vars

\* C5: update_todo(id, Y) on an existing id returns, and leaves stored as
\* a later list shows it, the record of that id with due_date, title,
\* assignee, completed and favorite those of Y; on an id that does not
\* exist it fails with 404 and leaves the Store as it was
C5_UpdateReplacesAllFields ==
    [][Handled("update") =>
        LET Y == request'.payload
            id == request'.id
            want == [id |-> id, due_date |-> Y.due_date, title |-> Y.title,
                     assignee |-> Y.assignee, completed |-> Given(Y, "completed"),
                     favorite |-> Given(Y, "favorite")]
            listed == Select(rows', BuildOrderClause("id", "asc"), NoFilter)
        IN  IF id \in IdsOf(rows)
            THEN /\ response'.status = 200
                 /\ response'.body = <<want>>
                 /\ \E i \in 1..Len(listed) : listed[i] = want
            ELSE /\ response'.status = 404
                 /\ response'.detail = "Todo not found"
                 /\ store' = store]_vars

\* C6: delete_todo(id) on an existing id removes that record and no other
\* and changes no other record, after which an update or a delete of that
\* id fails with 404; on an id that does not exist it fails with 404 and
\* leaves the Store as it was
C6_DeleteRemovesExactlyOne ==
    [][/\ Handled("delete") =>
            IF request'.id \in IdsOf(rows)
            THEN /\ response'.status = 200
                 /\ rows' \subseteq rows
                 /\ IdsOf(rows') = IdsOf(rows) \ {request'.id}
                 /\ Cardinality(rows') = Cardinality(rows) - 1
                 /\ <<tableExists, columns>>' = <<tableExists, columns>>
            ELSE /\ response'.status = 404
                 /\ response'.detail = "Todo not found"
                 /\ store' = store
       /\ ((Handled("delete") \/ Handled("update"))
              /\ request.op = "delete" /\ response.status = 200
              /\ request'.id = request.id)
            => /\ response'.status = 404
               /\ store' = store]_vars

\* a delete answered 404 for an id that a record had before it was
\* deleted, while another record is still stored
C6_Witness ==
    /\ request.op = "delete"
    /\ response.status = 404
    /\ request.id \in assigned
    /\ request.id \notin IdsOf(rows)
    /\ rows # {}

BootStep ==
    /\ pc \in {"create_all", "ensure_completed", "ensure_favorite"}
    /\ pc' # pc

\* the startup step that looks after column c
EnsureStepOf(c) == IF c = "completed" THEN "ensure_completed" ELSE "ensure_favorite"

\* C8: the bootstrap adds completed and favorite each only when the live
\* table lacks it, every existing row then reading false in it; it drops
\* no column, changes no value of an existing row, loses and adds no row;
\* and on a Store a bootstrap has completed on, it changes nothing
C8_BootstrapAdditiveIdempotent ==
    /\ [][BootStep =>
            /\ tableExists =>
                  /\ tableExists'
                  /\ columns \subseteq columns'
                  /\ Cardinality(rows') = Cardinality(rows)
                  /\ \A r \in rows : \E n \in rows' : \A c \in columns : n[c] = r[c]
            /\ \A c \in columns' \ columns : \A n \in rows' : n[c] = FALSE
            /\ \A c \in OptionalFields :
                  (tableExists /\ pc = EnsureStepOf(c) /\ pc' # "aborted") =>
                      c \in columns'
            /\ bootstrapped => store' = store]_vars
    /\ [](pc \in {"seed_todos", "serving"} =>
            tableExists /\ OptionalFields \subseteq columns)
    /\ [][tableExists => tableExists' /\ columns \subseteq columns']_vars

\* a second run of the bootstrap, past create_all and
\* ensure_completed_column, on a Store that holds records
C8_Witness ==
    /\ bootstrapped
    /\ pc = "ensure_favorite"
    /\ rows # {}

\* the record seed_todos builds at index i of its loop, without its id
SeedRecord(i) ==
    [title |-> titles[(i % 6) + 1] \o <<32, 35>> \o Digits(i + 1),
     assignee |-> assignees[(i % 5) + 1],
     completed |-> FALSE,
     favorite |-> FALSE]

\* C9: with the Store reachable, seed_todos leaves a Store that holds a
\* row as it is, and fills an empty one with exactly 100 records, record i
\* carrying title titles[i mod 6] #(i+1), assignee assignees[i mod 5], a
\* due date between today-10 and today+30, completed and favorite false
C9_SeedFillsEmptyStore ==
    [][(pc = "seed_todos" /\ pc' # pc /\ startup_error' # "OperationalError") =>
        IF rows # {}
        THEN store' = store
        ELSE /\ Cardinality(rows') = 100
             /\ \A i \in 0..99 :
                  \E r \in rows' :
                      /\ [f \in DOMAIN SeedRecord(i) |-> r[f]] = SeedRecord(i)
                      /\ r["due_date"] \in (0 - 10)..30]_vars

\* C10: startup runs create_all, ensure_completed_column,
\* ensure_favorite_column and seed_todos in this order, a handler runs only
\* in a process that has finished all four, and a process in which one of
\* them failed is aborted and has served and will serve no request
C10_StartupOrdered ==
    /\ [][/\ pc' # pc =>
                /\ pc' = "ensure_completed" => pc = "create_all"
                /\ pc' = "ensure_favorite" => pc = "ensure_completed"
                /\ pc' = "seed_todos" => pc = "ensure_favorite"
                /\ pc' = "serving" => pc = "seed_todos"
                /\ pc' = "create_all" => pc \in {"serving", "aborted"}
          /\ startup_error' # startup_error =>
                pc' = IF startup_error' = "none" THEN "create_all" ELSE "aborted"
          /\ (request' # request /\ request'.op # "none") =>
                pc = "serving" /\ pc' = "serving"]_vars
    /\ [](pc # "serving" => request = NoRequest /\ response = NoResponse)
    /\ [](pc = "serving" =>
            startup_error = "none" /\ tableExists /\ OptionalFields \subseteq columns)
    /\ [](startup_error # "none" <=> pc = "aborted")

\* a request answered by a process that went through the whole startup
C10_Witness ==
    /\ pc = "serving"
    /\ bootstrapped
    /\ request.op = "update"
    /\ response.status = 200

====
